---- MODULE Spec2Model ----
(***************************************************************************)
(* langflow_runner.py: a one-shot command-line client.  main() resolves    *)
(* its configuration from the environment and the command line, optionally *)
(* uploads a file through langflow.load.upload_file, calls run_flow (one   *)
(* HTTP POST), prints the response and optionally saves it.                *)
(*                                                                         *)
(* State: env, world and cli are the inputs of a run (the environment      *)
(* after load_dotenv, whether langflow imported, the command line); pc is  *)
(* main's position; args, tweaks and response are main's locals; reply is  *)
(* what requests.post did; error is the exception that left main; calls is *)
(* the log of the calls made to upload_file and requests.post; stdout and  *)
(* files are what was printed and written.                                 *)
(*                                                                         *)
(* Python values are modelled as follows.                                  *)
(*   Optional[str]  : << >> is None, <<s>> is the string s.                *)
(*   JSON values    : records tagged by t (null, bool, num, str, arr, obj);*)
(*                    an object is the sequence of its (k, v) entries in   *)
(*                    insertion order, as a Python dict keeps them.        *)
(*   str            : TLA+ strings; the two emoji of the source's messages *)
(*                    are written (x) and (ok), every other character is   *)
(*                    the source's.                                        *)
(***************************************************************************)
EXTENDS Integers, Sequences, FiniteSets, TLC

VARIABLES env, world, cli, pc, args, tweaks, reply, response, error, calls, stdout, files

vars == <<env, world, cli, pc, args, tweaks, reply, response, error, calls, stdout, files>>

(***************************************************************************)
(* Optional values and Python truthiness.                                  *)
(***************************************************************************)
None == << >>

Some(s) == <<s>>

\* `not x` for an Optional[str]: None and "" are falsy.
Falsy(o) == o = None \/ o[1] = ""

\* `sub in s` for two str values.
Contains(sub, s) ==
    \E i \in 1..(Len(s) - Len(sub) + 1) : SubSeq(s, i, i + Len(sub) - 1) = sub

(***************************************************************************)
(* JSON values.                                                            *)
(***************************************************************************)
JNull == [t |-> "null"]

JBool(b) == [t |-> "bool", b |-> b]

JNum(n) == [t |-> "num", n |-> n]

JStr(s) == [t |-> "str", s |-> s]

JArr(items) == [t |-> "arr", items |-> items]

JObj(kv) == [t |-> "obj", kv |-> kv]

KV(k, v) == [k |-> k, v |-> v]

\* bool(x) of a value json.loads can return.
Truthy(j) ==
    CASE j.t = "null" -> FALSE
      [] j.t = "bool" -> j.b
      [] j.t = "num"  -> j.n # 0
      [] j.t = "str"  -> j.s # ""
      [] j.t = "arr"  -> j.items # << >>
      [] j.t = "obj"  -> j.kv # << >>

RECURSIVE Spaces(_)
Spaces(n) == IF n <= 0 THEN "" ELSE " " \o Spaces(n - 1)

\* str(int) for the integers of the model.
Str(n) == IF n < 0 THEN "-" \o ToString(0 - n) ELSE ToString(n)

RECURSIVE Dumps(_, _, _)
RECURSIVE DumpEntries(_, _, _, _)
RECURSIVE DumpItems(_, _, _, _)

\* The separator written between two members of a container at depth level.
ItemSep(indent, level) ==
    IF indent = None THEN ", " ELSE "," \o "\n" \o Spaces(indent[1] * level)

\* The text written after the opening bracket of a non-empty container.
Open(indent, level) ==
    IF indent = None THEN "" ELSE "\n" \o Spaces(indent[1] * level)

\* The text written before the closing bracket of a non-empty container.
Close(indent, level) ==
    IF indent = None THEN "" ELSE "\n" \o Spaces(indent[1] * level)

DumpEntries(kv, i, indent, level) ==
    IF i > Len(kv) THEN ""
    ELSE (IF i = 1 THEN "" ELSE ItemSep(indent, level))
         \o "\"" \o kv[i].k \o "\"" \o ": " \o Dumps(kv[i].v, indent, level)
         \o DumpEntries(kv, i + 1, indent, level)

DumpItems(items, i, indent, level) ==
    IF i > Len(items) THEN ""
    ELSE (IF i = 1 THEN "" ELSE ItemSep(indent, level))
         \o Dumps(items[i], indent, level)
         \o DumpItems(items, i + 1, indent, level)

\* json.dumps(j, indent=indent), the text of the value at nesting depth level.
\* The strings of the model hold no character that JSON escapes.
Dumps(j, indent, level) ==
    CASE j.t = "null" -> "null"
      [] j.t = "bool" -> IF j.b THEN "true" ELSE "false"
      [] j.t = "num"  -> Str(j.n)
      [] j.t = "str"  -> "\"" \o j.s \o "\""
      [] j.t = "arr"  ->
            IF j.items = << >> THEN "[]"
            ELSE "[" \o Open(indent, level + 1)
                 \o DumpItems(j.items, 1, indent, level + 1)
                 \o Close(indent, level) \o "]"
      [] j.t = "obj"  ->
            IF j.kv = << >> THEN "{}"
            ELSE "{" \o Open(indent, level + 1)
                 \o DumpEntries(j.kv, 1, indent, level + 1)
                 \o Close(indent, level) \o "}"

\* json.dumps(j): indent=None.
DumpsCompact(j) == Dumps(j, None, 0)

\* json.dumps(j, indent=2).
DumpsIndented(j) == Dumps(j, Some(2), 0)

(***************************************************************************)
(* Module-level constants of langflow_runner.py.                           *)
(***************************************************************************)
BASE_API_URL == "https://api.langflow.astra.datastax.com"

DEFAULT_TWEAKS ==
    JObj(<< KV("AstraDBToolComponent-Dg6cx", JObj(<< >>)),
            KV("ParseData-r4Fhk", JObj(<< >>)),
            KV("GroqModel-ZMgtx", JObj(<< >>)),
            KV("ChatInput-D9hjW", JObj(<< >>)),
            KV("ChatOutput-ee0wn", JObj(<< >>)),
            KV("CombineText-SgCav", JObj(<< >>)) >>)

\* The placeholder the token check looks for.
TOKEN_PLACEHOLDER == "<YOUR_APPLICATION_TOKEN>"

(***************************************************************************)
(* json.loads.  The parser is modelled by what it accepts and returns on   *)
(* the documents of JsonUniverse: a text is a document when it is the      *)
(* compact or the indented serialization of a value (json.loads ignores    *)
(* the whitespace between tokens), and every other text of the model is    *)
(* malformed.                                                              *)
(***************************************************************************)
TweakOverride == JObj(<< KV("ChatInput-D9hjW", JObj(<< KV("input_value", JStr("hi")) >>)) >>)

UploadedTweaks ==
    JObj(<< KV("ParseData-r4Fhk", JObj(<< KV("path", JStr("flow/data.csv")) >>)) >>)

ResultOk == JObj(<< KV("result", JStr("ok")) >>)

ResultNested ==
    JObj(<< KV("outputs", JArr(<< JObj(<< KV("text", JStr("hi")) >>), JNum(1) >>)),
            KV("session_id", JNull) >>)

\* The longest list a response of the model holds.
MaxItems == 1

\* The list [1, ..., k].
ListOf(k) == JArr([i \in 1..k |-> JNum(i)])

JsonUniverse ==
    { DEFAULT_TWEAKS, TweakOverride, UploadedTweaks, ResultOk, ResultNested,
      JObj(<< >>), JNull, JBool(FALSE), JBool(TRUE), JNum(0), JNum(7),
      JStr(""), JStr("ok") }
    \cup { ListOf(k) : k \in 0..MaxItems }

\* The documents of the model: each text with the value it denotes.
Documents ==
    { << DumpsCompact(v), v >> : v \in JsonUniverse }
    \cup { << DumpsIndented(v), v >> : v \in JsonUniverse }

\* json.loads(text): the value, or the JSONDecodeError it raises.
Loads(text) ==
    LET found == { d \in Documents : d[1] = text } IN
    IF found = {}
    THEN [ok |-> FALSE, msg |-> "Expecting value: line 1 column 1 (char 0)"]
    ELSE [ok |-> TRUE, value |-> (CHOOSE d \in found : TRUE)[2]]

(***************************************************************************)
(* run_flow.                                                               *)
(***************************************************************************)
\* What requests.post can do: raise, or return a response.
Raises(cls, msg) == [kind |-> "raise", cls |-> cls, msg |-> msg]

Responds(status_code, text) ==
    [kind |-> "response", status_code |-> status_code, text |-> text]

StatusCodes == {200, 399, 400, 500, 599, 600}

BodyTexts ==
    { "{\"result\": \"ok\"}", "server error", DumpsIndented(ResultNested) }
    \cup { DumpsCompact(ListOf(k)) : k \in 0..MaxItems }

NetOutcomes ==
    { Raises("ReadTimeout", "Read timed out."),
      Raises("ConnectionError", "Connection refused"),
      Raises("ConnectionError", "Name or service not known") }
    \cup { Responds(s, b) : s \in StatusCodes, b \in BodyTexts }

\* Response.raise_for_status raises HTTPError for these status codes.
IsErrorStatus(status_code) == 400 <= status_code /\ status_code < 600

\* The request run_flow builds (lines 67-80).
ApiUrl(langflow_id, endpoint) ==
    BASE_API_URL \o "/lf/" \o (IF langflow_id = None THEN "None" ELSE langflow_id[1])
    \o "/api/v1/run/" \o endpoint

Headers(application_token) ==
    [Authorization |-> "Bearer " \o application_token,
     ContentType |-> "application/json"]

\* A payload that always carries the tweaks.
PayloadAlwaysTweaks(message, output_type, input_type, tw) ==
    JObj(<< KV("input_value", JStr(message)),
            KV("output_type", JStr(output_type)),
            KV("input_type", JStr(input_type)),
            KV("tweaks", tw) >>)

Payload(message, output_type, input_type, tw) ==
    JObj(<< KV("input_value", JStr(message)),
            KV("output_type", JStr(output_type)),
            KV("input_type", JStr(input_type)) >>
         \o (IF Truthy(tw) THEN << KV("tweaks", tw) >> ELSE << >>))

\* The body of the try block (lines 88-90): the exception it raises, or the
\* value it returns.
Exc(cls, msg) == [cls |-> cls, msg |-> msg]

TryPost(net) ==
    IF net.kind = "raise"
    THEN [exc |-> Some(Exc(net.cls, net.msg)), value |-> None]
    ELSE IF IsErrorStatus(net.status_code)
    THEN [exc |-> Some(Exc("HTTPError", Str(net.status_code) \o " Error for url")),
          value |-> None]
    ELSE LET parsed == Loads(net.text) IN
         IF ~parsed.ok
         THEN [exc |-> Some(Exc("JSONDecodeError", parsed.msg)), value |-> None]
         ELSE [exc |-> None, value |-> Some(parsed.value)]

\* except requests.exceptions.HTTPError (line 91).
IsHTTPError(cls) == cls = "HTTPError"

\* A handler that catches connection failures only.
IsExceptionConnectionOnly(cls) == cls = "ConnectionError"

\* except Exception (line 93): every class the try block can raise derives
\* from Exception.
IsException(cls) == cls \in {"HTTPError", "ReadTimeout", "ConnectionError", "JSONDecodeError"}

\* A handler that formats the status without the body text.
HttpErrorObjectNoBody(net) ==
    JObj(<< KV("error", JStr("HTTP " \o Str(net.status_code))) >>)

\* The object the HTTPError handler returns (line 92).
HttpErrorObject(net) ==
    JObj(<< KV("error", JStr("HTTP " \o Str(net.status_code) \o ": " \o net.text)) >>)

\* The object the generic handler returns (line 94).
ErrorObject(e) == JObj(<< KV("error", JStr(e.msg)) >>)

\* The except clauses applied to the try block's outcome (lines 91-94): the
\* value returned, or the exception that leaves run_flow.
Handlers(net) ==
    LET r == TryPost(net) IN
    IF r.exc = None THEN [raised |-> None, ret |-> r.value]
    ELSE IF IsHTTPError(r.exc[1].cls)
    THEN [raised |-> None, ret |-> Some(HttpErrorObject(net))]
    ELSE IF IsException(r.exc[1].cls)
    THEN [raised |-> None, ret |-> Some(ErrorObject(r.exc[1]))]
    ELSE [raised |-> r.exc, ret |-> None]

\* run_flow(message, endpoint, output_type, input_type, tweaks,
\* application_token, verbose) with the module global LANGFLOW_ID, on the
\* network outcome net: the request posted and the result.  logging is
\* configured at INFO, so the logger.debug calls of verbose mode emit nothing.
RunFlow(message, endpoint, output_type, input_type, tw, application_token, verbose, langflow_id, net) ==
    [request |-> [op |-> "POST",
                  url |-> ApiUrl(langflow_id, endpoint),
                  headers |-> Headers(application_token),
                  json |-> Payload(message, output_type, input_type, tw)],
     result |-> Handlers(net)]

(***************************************************************************)
(* str helpers of main.                                                    *)
(***************************************************************************)
RECURSIVE Strip(_)
\* s.strip() for the blanks of the model.
Strip(s) ==
    IF s = "" THEN ""
    ELSE IF SubSeq(s, 1, 1) = " " THEN Strip(SubSeq(s, 2, Len(s)))
    ELSE IF SubSeq(s, Len(s), Len(s)) = " " THEN Strip(SubSeq(s, 1, Len(s) - 1))
    ELSE s

RECURSIVE SplitFrom(_, _, _)
\* The pieces of s from position i on, the current piece starting at from.
SplitFrom(s, from, i) ==
    IF i > Len(s) THEN << SubSeq(s, from, Len(s)) >>
    ELSE IF SubSeq(s, i, i) = ","
    THEN << SubSeq(s, from, i - 1) >> \o SplitFrom(s, i + 1, i + 1)
    ELSE SplitFrom(s, from, i + 1)

\* s.split(",").
Split(s) == SplitFrom(s, 1, 1)

\* [c.strip() for c in components.split(",")] (line 150).
ComponentsList(components) ==
    [i \in 1..Len(Split(components)) |-> Strip(Split(components)[i])]

RECURSIVE Join(_, _)
\* sep.join(names).
Join(sep, names) ==
    IF names = << >> THEN ""
    ELSE IF Len(names) = 1 THEN names[1]
    ELSE names[1] \o sep \o Join(sep, Tail(names))

(***************************************************************************)
(* The checks of main, each as the condition under which it raises.        *)
(***************************************************************************)
\* A token check that does not look for the placeholder.
TokenRejectedEmptyOnly(application_token) == Falsy(application_token)

\* Line 124.
TokenRejected(application_token) ==
    Falsy(application_token) \/ Contains(TOKEN_PLACEHOLDER, application_token[1])

\* Line 127.
EndpointMissing(endpoint) == Falsy(endpoint)

\* validate_env_vars (lines 42-55): the names appended to missing.  It reads
\* the module globals, which hold the environment's values.
Missing(e) ==
    (IF Falsy(e.LANGFLOW_ID) THEN << "LANGFLOW_ID" >> ELSE << >>)
    \o (IF Falsy(e.FLOW_ID) THEN << "FLOW_ID" >> ELSE << >>)
    \o (IF Falsy(e.APPLICATION_TOKEN) THEN << "APPLICATION_TOKEN" >> ELSE << >>)

\* A validate_env_vars that never raises.
ValidateEnvVarsSkipped(e) == None

\* validate_env_vars: the exception it raises, or None.
ValidateEnvVars(e) ==
    IF Missing(e) # << >>
    THEN Some(Exc("EnvironmentError",
                  "Missing required environment variable(s): " \o Join(", ", Missing(e))
                  \o ". Set them in your .env file or via command-line arguments."))
    ELSE None

\* The regular files of the file system main runs on.
ExistingFiles == { "./data.csv" }

\* An is_file that accepts every path.
IsFileAlways(p) == TRUE

\* Path(p).is_file() (line 144).
IsFile(p) == p \in ExistingFiles

\* str(Path(p)) (line 152): a leading "./" is dropped.
PathStr(p) ==
    IF Len(p) > 2 /\ SubSeq(p, 1, 2) = "./" THEN SubSeq(p, 3, Len(p)) ELSE p

\* What langflow.load.upload_file can do when called: raise, or return a
\* tweaks mapping.  The routine is an external library.
UploadOutcomes ==
    { [kind |-> "raise", cls |-> "UploadError", msg |-> "Error uploading file"],
      [kind |-> "return", value |-> UploadedTweaks],
      [kind |-> "return", value |-> JObj(<< >>)] }

\* What writing the output file can do (lines 179-180): succeed, fail in
\* open (the file is untouched), or fail in the write (the file was truncated
\* by open).  Both failures are OSError subclasses.
SaveOutcomes ==
    { [kind |-> "ok"],
      [kind |-> "open_fails", cls |-> "PermissionError",
       msg |-> "[Errno 13] Permission denied"],
      [kind |-> "write_fails", cls |-> "OSError",
       msg |-> "[Errno 28] No space left on device"] }

\* A handler that catches a missing directory only.
IsIOErrorFileNotFoundOnly(cls) == cls = "FileNotFoundError"

\* except IOError (line 182): IOError is OSError.
IsIOError(cls) ==
    cls \in {"OSError", "PermissionError", "FileNotFoundError", "IsADirectoryError"}

(***************************************************************************)
(* The inputs of one run.                                                  *)
(***************************************************************************)
EnvLangflowIds == { None, Some("lf-1") }

EnvFlowIds == { None, Some("flow-1") }

EnvTokens == { None, Some(TOKEN_PLACEHOLDER), Some("ENV-TOKEN") }

CliEndpoints == { None, Some("my_chat") }

CliTokens == { None, Some(""), Some("x" \o TOKEN_PLACEHOLDER), Some("ABC123") }

CliTweaks ==
    { None, Some("{}"), Some(DumpsCompact(TweakOverride)), Some("{\"ChatInput-D9hjW\": ") }

CliOutputTypes == { None, Some("text") }

CliUploadFiles == { None, Some(""), Some("./data.csv"), Some("./missing.csv") }

CliComponents == { None, Some(""), Some("ParseData-r4Fhk, ChatInput-D9hjW") }

CliSaveOutputs == { None, Some("out.json") }

SavePaths == { "out.json" }

Environments ==
    [LANGFLOW_ID : EnvLangflowIds, FLOW_ID : EnvFlowIds, APPLICATION_TOKEN : EnvTokens]

CommandLines ==
    [message : {"Hello!"}, endpoint : CliEndpoints, tweaks : CliTweaks,
     application_token : CliTokens, output_type : CliOutputTypes,
     input_type : {None}, upload_file : CliUploadFiles, components : CliComponents,
     save_output : CliSaveOutputs, verbose : BOOLEAN, raw : BOOLEAN]

NoArgs ==
    [message |-> "", endpoint |-> None, tweaks |-> None, application_token |-> None,
     output_type |-> None, input_type |-> None, upload_file |-> None,
     components |-> None, save_output |-> None, verbose |-> FALSE, raw |-> FALSE]

(***************************************************************************)
(* The state machine of main.                                              *)
(***************************************************************************)
Init ==
    /\ env \in Environments
    /\ world \in [upload_available : BOOLEAN]
    /\ cli \in CommandLines
    /\ pc = "parse_args"
    /\ args = NoArgs
    /\ tweaks = None
    /\ reply = None
    /\ response = None
    /\ error = None
    /\ calls = << >>
    /\ stdout = << >>
    /\ files = [p \in SavePaths |-> None]

\* An argument's value: the command line's, or the default.
Default(given, default) == IF given = None THEN default ELSE given

\* parser.parse_args() with the defaults of lines 109-119.
ParseArgs ==
    /\ pc = "parse_args"
    /\ args' = [message |-> cli.message,
                endpoint |-> Default(cli.endpoint, env.FLOW_ID),
                tweaks |-> Default(cli.tweaks, Some(DumpsCompact(DEFAULT_TWEAKS))),
                application_token |-> Default(cli.application_token, env.APPLICATION_TOKEN),
                output_type |-> Default(cli.output_type, Some("chat")),
                input_type |-> Default(cli.input_type, Some("chat")),
                upload_file |-> cli.upload_file,
                components |-> cli.components,
                save_output |-> cli.save_output,
                verbose |-> cli.verbose,
                raw |-> cli.raw]
    /\ pc' = "check_token"
    /\ UNCHANGED <<env, world, cli, tweaks, reply, response, error, calls, stdout, files>>

\* An uncaught exception leaves main: the process ends with a non-zero status.
Abort(e) ==
    /\ pc' = "raised"
    /\ error' = Some(e)

\* Lines 124-125.
CheckToken ==
    /\ pc = "check_token"
    /\ IF TokenRejected(args.application_token)
       THEN Abort(Exc("ValueError",
                      "(x) Please set your actual APPLICATION_TOKEN via --application_token or .env file"))
       ELSE pc' = "check_endpoint" /\ UNCHANGED error
    /\ UNCHANGED <<env, world, cli, args, tweaks, reply, response, calls, stdout, files>>

\* Lines 127-128.
CheckEndpoint ==
    /\ pc = "check_endpoint"
    /\ IF EndpointMissing(args.endpoint)
       THEN Abort(Exc("ValueError",
                      "Missing flow ID. Please provide --endpoint or set FLOW_ID in your .env file."))
       ELSE pc' = "parse_tweaks" /\ UNCHANGED error
    /\ UNCHANGED <<env, world, cli, args, tweaks, reply, response, calls, stdout, files>>

\* Lines 130-133.
ParseTweaks ==
    /\ pc = "parse_tweaks"
    /\ LET parsed == Loads(args.tweaks[1]) IN
       IF parsed.ok
       THEN /\ tweaks' = Some(parsed.value)
            /\ pc' = "validate_env"
            /\ UNCHANGED error
       ELSE /\ Abort(Exc("ValueError", "Invalid tweaks JSON string"))
            /\ UNCHANGED tweaks
    /\ UNCHANGED <<env, world, cli, args, reply, response, calls, stdout, files>>

\* Line 136.
ValidateEnv ==
    /\ pc = "validate_env"
    /\ IF ValidateEnvVars(env) # None
       THEN Abort(ValidateEnvVars(env)[1])
       ELSE pc' = "handle_upload" /\ UNCHANGED error
    /\ UNCHANGED <<env, world, cli, args, tweaks, reply, response, calls, stdout, files>>

\* A components check that accepts the empty string.
ComponentsMissingNoneOnly(components) == components = None

\* Line 147.
ComponentsMissing(components) == Falsy(components)

\* The call of lines 151-157, with what the routine did.
UploadCall(out) ==
    [op |-> "upload_file",
     result |-> out,
     file_path |-> PathStr(args.upload_file[1]),
     host |-> BASE_API_URL,
     flow_id |-> args.endpoint[1],
     components |-> ComponentsList(args.components[1]),
     tweaks |-> tweaks[1]]

\* Lines 139-157.
HandleUpload ==
    /\ pc = "handle_upload"
    /\ IF Falsy(args.upload_file)
       THEN pc' = "run_flow" /\ UNCHANGED <<tweaks, error, calls>>
       ELSE IF ~world.upload_available
       THEN /\ Abort(Exc("ImportError",
                         "Langflow is not installed. Install it with: pip install langflow"))
            /\ UNCHANGED <<tweaks, calls>>
       ELSE IF ~IsFile(args.upload_file[1])
       THEN /\ Abort(Exc("FileNotFoundError",
                         "(x) File '" \o args.upload_file[1] \o "' does not exist."))
            /\ UNCHANGED <<tweaks, calls>>
       ELSE IF ComponentsMissing(args.components)
       THEN /\ Abort(Exc("ValueError", "You must provide --components to upload a file"))
            /\ UNCHANGED <<tweaks, calls>>
       ELSE \E out \in UploadOutcomes :
              /\ calls' = Append(calls, UploadCall(out))
              /\ IF out.kind = "raise"
                 THEN Abort(Exc(out.cls, out.msg)) /\ UNCHANGED tweaks
                 ELSE /\ tweaks' = Some(out.value)
                      /\ pc' = "run_flow"
                      /\ UNCHANGED error
    /\ UNCHANGED <<env, world, cli, args, reply, response, stdout, files>>

\* Lines 160-168.
CallRunFlow ==
    /\ pc = "run_flow"
    /\ \E net \in NetOutcomes :
         LET r == RunFlow(args.message, args.endpoint[1], args.output_type[1],
                          args.input_type[1], tweaks[1], args.application_token[1],
                          args.verbose, env.LANGFLOW_ID, net)
         IN /\ calls' = Append(calls, r.request)
            /\ reply' = Some(net)
            /\ IF r.result.raised = None
               THEN response' = r.result.ret /\ pc' = "print" /\ UNCHANGED error
               ELSE Abort(r.result.raised[1]) /\ UNCHANGED response
    /\ UNCHANGED <<env, world, cli, args, tweaks, stdout, files>>

\* The text printed for the response (lines 171-174).
Printed(resp, raw) == IF raw THEN DumpsCompact(resp) ELSE DumpsIndented(resp)

\* A save that writes the compact text.
SavedCompact(resp) == DumpsCompact(resp)

\* The text json.dump writes to the file (line 180).
Saved(resp) == DumpsIndented(resp)

\* Lines 171-174.
PrintResponse ==
    /\ pc = "print"
    /\ stdout' = Append(stdout, Printed(response[1], args.raw))
    /\ pc' = "save"
    /\ UNCHANGED <<env, world, cli, args, tweaks, reply, response, error, calls, files>>

\* Lines 177-183.
SaveOutput ==
    /\ pc = "save"
    /\ IF Falsy(args.save_output)
       THEN pc' = "exit0" /\ UNCHANGED <<stdout, files, error>>
       ELSE \E out \in SaveOutcomes :
              IF out.kind = "ok"
              THEN /\ files' = [files EXCEPT ![args.save_output[1]] = Some(Saved(response[1]))]
                   /\ stdout' = Append(stdout, "(ok) Output saved to " \o args.save_output[1])
                   /\ pc' = "exit0"
                   /\ UNCHANGED error
              ELSE /\ files' = IF out.kind = "open_fails" THEN files
                               ELSE [files EXCEPT ![args.save_output[1]] = Some("")]
                   /\ IF IsIOError(out.cls)
                      THEN /\ stdout' = Append(stdout, "(x) Failed to save output: " \o out.msg)
                           /\ pc' = "exit0"
                           /\ UNCHANGED error
                      ELSE Abort(Exc(out.cls, out.msg)) /\ UNCHANGED stdout
    /\ UNCHANGED <<env, world, cli, args, tweaks, reply, response, calls>>

Next ==
    \/ ParseArgs
    \/ CheckToken
    \/ CheckEndpoint
    \/ ParseTweaks
    \/ ValidateEnv
    \/ HandleUpload
    \/ CallRunFlow
    \/ PrintResponse
    \/ SaveOutput

Spec == Init /\ [][Next]_vars

(***************************************************************************)
(* Properties.  The conditions below are stated on the inputs of the run   *)
(* (env, world, cli) and on what the run did (calls, reply, stdout, files),*)
(* not on the operators main uses to decide.                               *)
(***************************************************************************)
Terminated == pc \in {"exit0", "raised"}

Posted == \E i \in 1..Len(calls) : calls[i].op = "POST"

Uploaded == \E i \in 1..Len(calls) : calls[i].op = "upload_file"

\* The request that was posted.
PostedRequest == calls[CHOOSE i \in 1..Len(calls) : calls[i].op = "POST"]

\* What the upload routine returned.
UploadReturned ==
    calls[CHOOSE i \in 1..Len(calls) : calls[i].op = "upload_file"].result.value

\* The token and the flow identifier after merging the command line over the
\* environment.
MergedToken ==
    IF cli.application_token # None THEN cli.application_token ELSE env.APPLICATION_TOKEN

MergedEndpoint == IF cli.endpoint # None THEN cli.endpoint ELSE env.FLOW_ID

Absent(o) == o = None \/ o = Some("")

TokenBad == Absent(MergedToken) \/ MergedToken = Some("<YOUR_APPLICATION_TOKEN>")

NoFlowId == Absent(MergedEndpoint)

TweaksMalformed ==
    /\ cli.tweaks # None
    /\ \A d \in Documents : d[1] # cli.tweaks[1]

EnvValueMissing ==
    Absent(env.LANGFLOW_ID) \/ Absent(env.FLOW_ID) \/ Absent(env.APPLICATION_TOKEN)

ConfigurationFails == TokenBad \/ NoFlowId \/ TweaksMalformed \/ EnvValueMissing

\* --upload_file names a path (a non-empty one).
UploadRequested == ~Absent(cli.upload_file)

UploadPathNotAFile == UploadRequested /\ cli.upload_file[1] \notin {"./data.csv"}

UploadFails ==
    /\ UploadRequested
    /\ \/ ~world.upload_available
       \/ UploadPathNotAFile
       \/ Absent(cli.components)

ValidationFails == ConfigurationFails \/ UploadFails

ErrorIs(cls) == error # None /\ error[1].cls = cls

ErrorSays(cls, msg) == error # None /\ error[1] = [cls |-> cls, msg |-> msg]

\* C3: whenever a validation step fails the run never leaves the validation
\* steps except by raising, and the POST of run_flow is never issued; the POST
\* is issued only in runs whose validation steps all pass.
C3_NoPostBeforeValidation ==
    /\ ValidationFails =>
          /\ ~Posted
          /\ pc \notin {"run_flow", "print", "save", "exit0"}
          /\ Terminated => (pc = "raised" /\ error # None)
    /\ Posted => ~ValidationFails

\* C3 witness: a run aborted at the tweaks check, with no call made.
C3_Witness ==
    /\ pc = "raised"
    /\ TweaksMalformed
    /\ ~TokenBad /\ ~NoFlowId
    /\ ErrorSays("ValueError", "Invalid tweaks JSON string")
    /\ calls = << >>

\* C1: whenever the POST is answered with an error status (400..599),
\* run_flow returns exactly the one-key object {"error": "HTTP S: B"} for the
\* status S and body text B of the answer, and no exception leaves it.
C1_HttpErrorReturned ==
    (/\ reply # None
     /\ reply[1].kind = "response"
     /\ reply[1].status_code >= 400 /\ reply[1].status_code <= 599)
    => /\ pc \in {"print", "save", "exit0"}
       /\ error = None
       /\ response = Some([t |-> "obj",
                           kv |-> << [k |-> "error",
                                      v |-> [t |-> "str",
                                             s |-> "HTTP " \o ToString(reply[1].status_code)
                                                   \o ": " \o reply[1].text]] >>])

\* C1 witness: status 500 with body "server error" was answered and the run
\* ended normally with {"error": "HTTP 500: server error"}.
C1_Witness ==
    /\ pc = "exit0"
    /\ reply = Some(Responds(500, "server error"))
    /\ response = Some(JObj(<< KV("error", JStr("HTTP 500: server error")) >>))
    /\ stdout[1] = "{\"error\": \"HTTP 500: server error\"}"

\* The body of the answer is no JSON document.
ReplyNotJson == \A d \in Documents : d[1] # reply[1].text

\* C2: whenever the POST fails otherwise (requests.post raises: timeout,
\* refused connection, DNS failure; or a non-error status carries a body that
\* is not JSON), run_flow returns a one-key object {"error": <message>}, the
\* message being the exception's, and no exception leaves it.
C2_OtherFailureReturned ==
    (/\ reply # None
     /\ \/ reply[1].kind = "raise"
        \/ /\ reply[1].kind = "response"
           /\ (reply[1].status_code < 400 \/ reply[1].status_code > 599)
           /\ ReplyNotJson)
    => /\ pc \in {"print", "save", "exit0"}
       /\ error = None
       /\ response # None
       /\ response[1].t = "obj"
       /\ Len(response[1].kv) = 1
       /\ response[1].kv[1].k = "error"
       /\ response[1].kv[1].v.t = "str"
       /\ reply[1].kind = "raise" => response[1].kv[1].v.s = reply[1].msg

\* C2 witness: the POST timed out and the run ended normally with the error
\* object holding the exception's message.
C2_Witness ==
    /\ pc = "exit0"
    /\ reply = Some(Raises("ReadTimeout", "Read timed out."))
    /\ response = Some(JObj(<< KV("error", JStr("Read timed out.")) >>))

\* C4 (the claim as stated): with the token and the flow identifier given on
\* the command line, and LANGFLOW_ID (which has no command-line argument) set
\* in the environment, configuration resolution does not fail for a missing
\* environment variable.
C4_CliArgumentSuffices ==
    (/\ cli.application_token = Some("ABC123")
     /\ cli.endpoint = Some("my_chat")
     /\ ~Absent(env.LANGFLOW_ID))
    => ~ErrorIs("EnvironmentError")

TokenMessage ==
    "(x) Please set your actual APPLICATION_TOKEN via --application_token or .env file"

FlowIdMessage ==
    "Missing flow ID. Please provide --endpoint or set FLOW_ID in your .env file."

\* C10: a merged token that is absent or is the placeholder makes main raise
\* the token's ValueError, whatever the flow identifier and the tweaks are;
\* otherwise an unresolvable flow identifier makes main raise a ValueError
\* before the tweaks are parsed; in both cases no call is made.
C10_ConfigurationRejected ==
    /\ TokenBad =>
          /\ pc \in {"parse_args", "check_token", "raised"}
          /\ pc = "raised" => ErrorSays("ValueError", TokenMessage)
          /\ calls = << >> /\ tweaks = None
    /\ (~TokenBad /\ NoFlowId) =>
          /\ pc \in {"parse_args", "check_token", "check_endpoint", "raised"}
          /\ pc = "raised" =>
                \/ ErrorSays("ValueError", FlowIdMessage)
                \/ ErrorSays("ValueError", TokenMessage)
          /\ calls = << >> /\ tweaks = None

\* C10 witness: all three environment values set, no command-line override,
\* the environment's token is the placeholder, and main raised.
C10_Witness ==
    /\ pc = "raised"
    /\ ~Absent(env.LANGFLOW_ID) /\ ~Absent(env.FLOW_ID)
    /\ env.APPLICATION_TOKEN = Some("<YOUR_APPLICATION_TOKEN>")
    /\ cli.application_token = None /\ cli.endpoint = None
    /\ ErrorSays("ValueError", TokenMessage)

\* The merged token is one the token check refuses: absent, or holding the
\* placeholder anywhere.
TokenUnusable ==
    Absent(MergedToken) \/ Contains("<YOUR_APPLICATION_TOKEN>", MergedToken[1])

\* The checks made before the upload is handled all pass.
EarlierChecksPass ==
    ~TokenUnusable /\ ~NoFlowId /\ ~TweaksMalformed /\ ~EnvValueMissing

PastValidation == pc \in {"run_flow", "print", "save", "exit0"}

\* C5 (the claim as stated): --upload_file naming a path that is not an
\* existing regular file, the earlier checks passing, makes main fail with a
\* file-not-found error whether or not the upload capability is installed, and
\* neither the upload routine nor the POST is invoked.
C5_FileNotFoundAlways ==
    (UploadPathNotAFile /\ EarlierChecksPass)
    => /\ ~Uploaded /\ ~Posted /\ ~PastValidation
       /\ pc = "raised" => ErrorIs("FileNotFoundError")

\* C5 (amended): a non-empty --upload_file path that is not an existing regular
\* file, the earlier checks passing, makes main fail without invoking the
\* upload routine or the POST: with the file-not-found error when the upload
\* capability is installed, with the ImportError when it is not.
C5_MissingUploadFile ==
    (UploadPathNotAFile /\ EarlierChecksPass)
    => /\ ~Uploaded /\ ~Posted /\ ~PastValidation
       /\ pc = "raised" =>
             IF world.upload_available
             THEN ErrorSays("FileNotFoundError",
                            "(x) File '" \o cli.upload_file[1] \o "' does not exist.")
             ELSE ErrorIs("ImportError")

\* C5 witness: the file-not-found error raised for ./missing.csv although
\* --components was given.
C5_Witness ==
    /\ pc = "raised"
    /\ cli.upload_file = Some("./missing.csv")
    /\ ~Absent(cli.components)
    /\ world.upload_available
    /\ ErrorIs("FileNotFoundError")
    /\ calls = << >>

ComponentsMessage == "You must provide --components to upload a file"

\* C6 (the claim as stated): --upload_file set with --components omitted or
\* empty makes main fail with the 'You must provide --components' error, the
\* upload routine never invoked, for every value of the upload path (the
\* earlier checks passing and the upload capability installed).
C6_ComponentsErrorAlways ==
    (/\ UploadRequested
     /\ Absent(cli.components)
     /\ EarlierChecksPass
     /\ world.upload_available)
    => /\ ~Uploaded
       /\ Terminated => ErrorSays("ValueError", ComponentsMessage)

\* C6 (amended): a non-empty --upload_file with --components omitted or empty
\* makes main fail, the upload routine and the POST never invoked, for every
\* value of the upload path; with the earlier checks passing and the upload
\* capability installed, the failure is the 'You must provide --components'
\* error when the path is an existing regular file and the file-not-found
\* error when it is not.
C6_ComponentsRequired ==
    (UploadRequested /\ Absent(cli.components))
    => /\ ~Uploaded /\ ~Posted /\ ~PastValidation
       /\ Terminated => (pc = "raised" /\ error # None)
       /\ (/\ pc = "raised"
           /\ EarlierChecksPass
           /\ world.upload_available
           /\ ~UploadPathNotAFile) => ErrorSays("ValueError", ComponentsMessage)
       /\ (/\ pc = "raised"
           /\ EarlierChecksPass
           /\ world.upload_available
           /\ UploadPathNotAFile) => ErrorIs("FileNotFoundError")

\* C6 witness: the components error raised for an existing file and an empty
\* --components.
C6_Witness ==
    /\ pc = "raised"
    /\ cli.upload_file = Some("./data.csv")
    /\ cli.components = Some("")
    /\ ErrorSays("ValueError", ComponentsMessage)
    /\ calls = << >>

\* The save was asked for and reported as done.
SaveSucceeded ==
    /\ pc = "exit0"
    /\ ~Absent(cli.save_output)
    /\ Len(stdout) = 2
    /\ stdout[2] = "(ok) Output saved to " \o cli.save_output[1]

\* The save was asked for and reported as failed.
SaveFailed ==
    /\ pc = "exit0"
    /\ ~Absent(cli.save_output)
    /\ Len(stdout) = 2
    /\ \E out \in SaveOutcomes :
          out.kind # "ok" /\ stdout[2] = "(x) Failed to save output: " \o out.msg

\* C7: once the POST has been issued main never raises: it prints the response
\* (before any save is attempted), then saves or reports the failed save, and
\* ends with status 0; until then a step is always possible.
C7_ExitsNormallyAfterCall ==
    Posted =>
       /\ pc \in {"print", "save", "exit0"}
       /\ error = None
       /\ response # None
       /\ pc \in {"print", "save"} => ENABLED (PrintResponse \/ SaveOutput)
       /\ pc = "print" => (stdout = << >> /\ \A p \in SavePaths : files[p] = None)
       /\ pc \in {"save", "exit0"} =>
             /\ Len(stdout) >= 1
             /\ stdout[1] = IF cli.raw THEN DumpsCompact(response[1])
                            ELSE DumpsIndented(response[1])
       /\ pc = "save" => (Len(stdout) = 1 /\ \A p \in SavePaths : files[p] = None)
       /\ (pc = "exit0" /\ ~Absent(cli.save_output)) => (SaveSucceeded \/ SaveFailed)
       /\ (pc = "exit0" /\ Absent(cli.save_output)) => Len(stdout) = 1

\* C7 witness: the remote call returned an error object, the write failed, and
\* main ended with status 0 with the response printed and the failure reported.
C7_Witness ==
    /\ pc = "exit0"
    /\ reply # None /\ reply[1].kind = "raise"
    /\ SaveFailed
    /\ stdout[2] = "(x) Failed to save output: [Errno 13] Permission denied"
    /\ stdout[1] = DumpsIndented(response[1])

\* C8 (the claim as stated): after a successful save the file holds the
\* 2-space-indented JSON of the response and equals the JSON printed, for every
\* response and both settings of --raw.
C8_FileMatchesPrinted ==
    SaveSucceeded =>
       /\ files[cli.save_output[1]] = Some(DumpsIndented(response[1]))
       /\ files[cli.save_output[1]] = Some(stdout[1])

NonEmptyContainer(j) ==
    \/ j.t = "obj" /\ j.kv # << >>
    \/ j.t = "arr" /\ j.items # << >>

\* C8 (amended): after a successful save the file holds the 2-space-indented
\* JSON of the response, for every response and both settings of --raw; it
\* equals the JSON printed when --raw is not given; with --raw the printed
\* text is the compact JSON, which differs from the file for a response that
\* is a non-empty object or array.
C8_FileIsIndentedJson ==
    SaveSucceeded =>
       /\ files[cli.save_output[1]] = Some(DumpsIndented(response[1]))
       /\ response[1] = ResultOk =>
             files[cli.save_output[1]] = Some("{" \o "\n" \o "  \"result\": \"ok\"" \o "\n" \o "}")
       /\ ~cli.raw => files[cli.save_output[1]] = Some(stdout[1])
       /\ cli.raw => stdout[1] = DumpsCompact(response[1])
       /\ (cli.raw /\ NonEmptyContainer(response[1])) =>
             files[cli.save_output[1]] # Some(stdout[1])

\* C8 witness: {"result": "ok"} printed compactly under --raw and saved
\* indented.
C8_Witness ==
    /\ SaveSucceeded
    /\ cli.raw
    /\ response = Some(ResultOk)
    /\ stdout[1] = "{\"result\": \"ok\"}"
    /\ files["out.json"] = Some("{" \o "\n" \o "  \"result\": \"ok\"" \o "\n" \o "}")

\* The tweaks main hands to run_flow: the upload routine's mapping after an
\* upload, else the parsed --tweaks, else the default mapping.
ExpectedTweaks ==
    IF Uploaded THEN UploadReturned
    ELSE IF cli.tweaks # None
    THEN (CHOOSE d \in Documents : d[1] = cli.tweaks[1])[2]
    ELSE DEFAULT_TWEAKS

\* C9: the body posted holds input_value (the message), output_type and
\* input_type, in this order, and a fourth field tweaks if and only if the
\* tweaks mapping is non-empty; the tweaks are the upload routine's mapping
\* after an upload, else the parsed --tweaks alone, else the default mapping
\* of six component identifiers to empty objects.
C9_RequestBody ==
    Posted =>
       LET body == PostedRequest.json IN
       /\ body.t = "obj"
       /\ Len(body.kv) \in {3, 4}
       /\ body.kv[1] = [k |-> "input_value", v |-> [t |-> "str", s |-> cli.message]]
       /\ body.kv[2] = [k |-> "output_type",
                        v |-> [t |-> "str",
                               s |-> IF cli.output_type = None THEN "chat"
                                     ELSE cli.output_type[1]]]
       /\ body.kv[3] = [k |-> "input_type", v |-> [t |-> "str", s |-> "chat"]]
       /\ ExpectedTweaks.t = "obj"
       /\ IF ExpectedTweaks.kv # << >>
          THEN Len(body.kv) = 4 /\ body.kv[4] = [k |-> "tweaks", v |-> ExpectedTweaks]
          ELSE Len(body.kv) = 3
       /\ (cli.tweaks = None /\ ~Uploaded) =>
             /\ Len(body.kv[4].v.kv) = 6
             /\ \A i \in 1..6 : body.kv[4].v.kv[i].v = [t |-> "obj", kv |-> << >>]
             /\ { body.kv[4].v.kv[i].k : i \in 1..6 } =
                   { "AstraDBToolComponent-Dg6cx", "ParseData-r4Fhk", "GroqModel-ZMgtx",
                     "ChatInput-D9hjW", "ChatOutput-ee0wn", "CombineText-SgCav" }

\* C9 witness: --tweaks given without upload, and the body posted carries the
\* parsed override alone, none of the default entries.
C9_Witness ==
    /\ Posted
    /\ ~Uploaded
    /\ cli.tweaks = Some("{\"ChatInput-D9hjW\": {\"input_value\": \"hi\"}}")
    /\ Len(PostedRequest.json.kv) = 4
    /\ PostedRequest.json.kv[4].v = TweakOverride

====
